---- MODULE Spec2Model ----
(***************************************************************************)
(* A model of gist.sharer: the `share` descriptor/decorator and the        *)
(* SharerMixin that owns a ThreadPoolExecutor(max_workers=1).              *)
(*                                                                         *)
(* Threads of the program: the asyncio event loop thread (variables        *)
(* ready, loop, pc) and, per resource instance, the worker threads of its  *)
(* pool (variables work_queue, threads, exited, executing).                *)
(***************************************************************************)
EXTENDS Integers, Sequences, FiniteSets, TLC

\* ---------------------------------------------------------------- bounds
\* How many wrapped calls are made; each has its own awaiting caller.
NumTasks == 2

\* ----------------------------------------------------- program constants
\* ThreadPoolExecutor(max_workers=1)
MaxWorkers == 1

Inst == {"X", "Y"}
\* A task is one wrapped call and the caller awaiting it, numbered in the
\* order the calls are made; a job's id is the number of its task.
Tasks == 1..NumTasks
Methods == {"computation", "arguments", "crash"}
NoInst == "unset"

\* ------------------------------------------------------- python values
PyNone == <<"None">>
PyInt(n) == <<"int", n>>
PyFloat(n) == <<"float", n>>
PyBool(b) == <<"bool", b>>

\* An Outcome: what a Future holds, what an await returns or raises.
NoOutcome == [kind |-> "none", type |-> "", val |-> PyNone, msg |-> ""]
Value(v) == [kind |-> "value", type |-> v[1], val |-> v, msg |-> ""]
Raised(type, msg) == [kind |-> "error", type |-> type, val |-> PyNone, msg |-> msg]

\* ------------------------------------------------ the wrapped methods
\* Parameters after self, in declaration order.
Params(m) ==
    IF m = "arguments" THEN <<"one", "two", "three", "four">> ELSE <<>>

\* three=None, four=None
Default(p) == PyNone

\* Python's argument binding: positionals fill the parameters from the left,
\* then keywords by name, then the defaults.
BindArg(m, args, kwargs, k) ==
    IF k <= Len(args) THEN args[k]
    ELSE IF \E kv \in kwargs : kv[1] = Params(m)[k]
         THEN (CHOOSE kv \in kwargs : kv[1] = Params(m)[k])[2]
         ELSE Default(Params(m)[k])

computation(self) == Value(PyFloat((100 * 100) \div 2))

arguments(self, one, two, three, four) ==
    Value(PyBool(one = PyInt(1) /\ two = PyInt(2) /\ three = PyInt(3) /\ four = PyInt(4)))

crash(self) == Raised("RuntimeWarning", "Can you read this exception?")

\* fn(self, *args, **kwargs): the original, undecorated method called directly.
Exe(m, self, args, kwargs) ==
    CASE m = "computation" -> computation(self)
      [] m = "arguments" ->
            arguments(self, BindArg(m, args, kwargs, 1), BindArg(m, args, kwargs, 2),
                      BindArg(m, args, kwargs, 3), BindArg(m, args, kwargs, 4))
      [] m = "crash" -> crash(self)

\* The argument combinations callers use: <<method, args, kwargs>>.
CallShapes ==
    { <<"computation", <<>>, {}>>,
      <<"crash", <<>>, {}>>,
      <<"arguments", <<PyInt(1), PyInt(2)>>, {<<"three", PyInt(3)>>, <<"four", PyInt(4)>>}>>,
      <<"arguments", <<PyInt(1), PyInt(2)>>, {}>> }

\* ----------------------------------------------------------------- state
VARIABLES
    obj,         \* share._obj of each decorated method's share object
    pc,          \* where each caller's coroutine stands
    call,        \* the wrapped call each caller made: instance, method, arguments
    attempt,     \* the submission each call made: the lane, the job, lane closed
    fut,         \* the concurrent.futures.Future each call got from submit
    out,         \* what the await gave the caller
    ready,       \* the event loop's FIFO of ready tasks
    loop,        \* what the event loop thread is doing
    shutdownFlag,\* ThreadPoolExecutor._shutdown of each instance's pool
    work_queue,  \* ThreadPoolExecutor._work_queue of each instance's pool
    threads,     \* len(ThreadPoolExecutor._threads)
    exited,      \* how many of those worker threads have returned
    executing,   \* the work items the worker threads are running
    submitLog,   \* per lane, the job ids in the order submit accepted them
    startLog,    \* per lane, the job ids in the order a worker began them
    endLog,      \* per lane, the job ids in the order a worker finished them
    resumeLog    \* the job ids in the order their callers got the outcome

vars == <<obj, pc, call, attempt, fut, out, ready, loop, shutdownFlag, work_queue,
          threads, exited, executing, submitLog, startLog, endLog, resumeLog>>

poolVars == <<shutdownFlag, work_queue, threads, exited, executing>>
logVars == <<submitLog, startLog, endLog, resumeLog>>

Free == <<"free">>
InResult(t) == <<"result", t>>
InJoin(i) == <<"join", i>>

NoCall == [inst |-> NoInst, m |-> "", args |-> <<>>, kwargs |-> {}]
NoJob == [id |-> 0, fn |-> "", inst |-> NoInst, args |-> <<>>, kwargs |-> {}]
NoAttempt == [lane |-> NoInst, job |-> NoJob, closed |-> FALSE]

NoFuture == [state |-> "NONE", outcome |-> NoOutcome]

LaneClosed == Raised("RuntimeError", "cannot schedule new futures after shutdown")

Init ==
    /\ obj = [m \in Methods |-> NoInst]
    /\ pc = [t \in Tasks |-> "idle"]
    /\ call = [t \in Tasks |-> NoCall]
    /\ attempt = [t \in Tasks |-> NoAttempt]
    /\ fut = [t \in Tasks |-> NoFuture]
    /\ out = [t \in Tasks |-> NoOutcome]
    /\ ready = <<>>
    /\ loop = Free
    /\ shutdownFlag = [i \in Inst |-> FALSE]
    /\ work_queue = [i \in Inst |-> <<>>]
    /\ threads = [i \in Inst |-> 0]
    /\ exited = [i \in Inst |-> 0]
    /\ executing = [i \in Inst |-> {}]
    /\ submitLog = [i \in Inst |-> <<>>]
    /\ startLog = [i \in Inst |-> <<>>]
    /\ endLog = [i \in Inst |-> <<>>]
    /\ resumeLog = <<>>

\* ------------------------------------------------ share (the decorator)
\* A wrapper that is no coroutine function and submits when it is called.
CallEager(t, i, shape) ==
    /\ loop = Free
    /\ pc[t] = "idle"
    /\ \A u \in Tasks : u < t => pc[u] # "idle"
    /\ obj' = [obj EXCEPT ![shape[1]] = i]
    /\ call' = [call EXCEPT ![t] = [inst |-> i, m |-> shape[1],
                                    args |-> shape[2], kwargs |-> shape[3]]]
    /\ pc' = [pc EXCEPT ![t] = "created"]
    /\ work_queue' = [work_queue EXCEPT ![i] =
                          Append(@, [id |-> t, fn |-> shape[1], inst |-> i,
                                     args |-> shape[2], kwargs |-> shape[3]])]
    /\ submitLog' = [submitLog EXCEPT ![i] = Append(@, t)]
    /\ threads' = [threads EXCEPT ![i] = IF @ < MaxWorkers THEN @ + 1 ELSE @]
    /\ fut' = [fut EXCEPT ![t] = [state |-> "PENDING", outcome |-> NoOutcome]]
    /\ UNCHANGED <<attempt, out, ready, loop, shutdownFlag, exited, executing,
                   startLog, endLog, resumeLog>>

\* share.__get__ then the call of the bound share.__call__: an `async def`, so
\* the call only creates the coroutine object; none of its body has run.
Call(t, i, shape) ==
    /\ loop = Free
    /\ pc[t] = "idle"
    /\ \A u \in Tasks : u < t => pc[u] # "idle"
    /\ obj' = [obj EXCEPT ![shape[1]] = i]
    /\ call' = [call EXCEPT ![t] = [inst |-> i, m |-> shape[1],
                                    args |-> shape[2], kwargs |-> shape[3]]]
    /\ pc' = [pc EXCEPT ![t] = "created"]
    /\ attempt' = [attempt EXCEPT ![t] = NoAttempt]
    /\ fut' = [fut EXCEPT ![t] = NoFuture]
    /\ out' = [out EXCEPT ![t] = NoOutcome]
    /\ UNCHANGED <<ready, loop, poolVars, logVars>>

\* self._obj as the coroutine body reads it when it runs.
BoundInstance(t) == obj[call[t].m]

\* self._obj.pool: the pool of the instance self._obj names when the body runs.
PoolOfCallInstance(t) == call[t].inst
PoolOf(t) == BoundInstance(t)

\* ThreadPoolExecutor.submit refuses once _shutdown is set.
SubmitRefusedNever(i) == FALSE
SubmitRefused(i) == shutdownFlag[i]

\* ThreadPoolExecutor._adjust_thread_count: a thread is started only while
\* fewer than max_workers exist.
AdjustThreadCountPerCall(n) == n + 1
AdjustThreadCountNever(n) == n
AdjustThreadCount(n) == IF n < MaxWorkers THEN n + 1 ELSE n

\* await asyncio.sleep(0): the task is rescheduled behind every ready task.
YieldFirst(q, t) == <<t>> \o q
Yield(q, t) == Append(q, t)

\* The coroutine body up to its first suspension:
\*   future = self._obj.pool.submit(self._exe, self._obj, *args, **kwargs)
\*   await asyncio.sleep(0)
\* `q` is the ready queue the task re-enters at the tail.
FirstStep(t, q) ==
    LET i == PoolOf(t)
        job == [id |-> t, fn |-> call[t].m, inst |-> BoundInstance(t),
                args |-> call[t].args, kwargs |-> call[t].kwargs]
    IN  /\ attempt' = [attempt EXCEPT ![t] =
                          [lane |-> i, job |-> job, closed |-> shutdownFlag[i]]]
        /\ IF SubmitRefused(i)
           THEN /\ pc' = [pc EXCEPT ![t] = "done"]
                /\ out' = [out EXCEPT ![t] = LaneClosed]
                /\ ready' = q
                /\ UNCHANGED <<fut, work_queue, threads, submitLog>>
           ELSE /\ work_queue' = [work_queue EXCEPT ![i] = Append(@, job)]
                /\ threads' = [threads EXCEPT ![i] = AdjustThreadCount(@)]
                /\ fut' = [fut EXCEPT ![t] = [state |-> "PENDING", outcome |-> NoOutcome]]
                /\ submitLog' = [submitLog EXCEPT ![i] = Append(@, job.id)]
                /\ pc' = [pc EXCEPT ![t] = "suspended"]
                /\ ready' = Yield(q, t)
                /\ UNCHANGED out
        /\ UNCHANGED <<obj, call, loop, shutdownFlag, exited, executing,
                       startLog, endLog, resumeLog>>

\* `await resource.method(...)`: the caller's task runs the coroutine at once.
AwaitDirect(t) ==
    /\ loop = Free
    /\ pc[t] = "created"
    /\ FirstStep(t, ready)

\* asyncio.ensure_future / gather / create_task on the coroutine object: its
\* first step is queued behind the tasks that are already ready.
Schedule(t) ==
    /\ loop = Free
    /\ pc[t] = "created"
    /\ pc' = [pc EXCEPT ![t] = "scheduled"]
    /\ ready' = Append(ready, t)
    /\ UNCHANGED <<obj, call, attempt, fut, out, loop, poolVars, logVars>>

\* ------------------------------------------------------ the event loop
\* The loop runs its ready callbacks first in, first out.
NextReadyLast(q) == <<q[Len(q)], SubSeq(q, 1, Len(q) - 1)>>
NextReady(q) == <<Head(q), Tail(q)>>

\* A scheduled coroutine gets its first step.
LoopStart ==
    /\ loop = Free
    /\ ready # <<>>
    /\ LET t == NextReady(ready)[1]
       IN  /\ pc[t] = "scheduled"
           /\ FirstStep(t, NextReady(ready)[2])

\* sleep(0) is over: the coroutine goes on into future.result(), a blocking
\* call of concurrent.futures, made on the event loop's thread.
LoopResume ==
    /\ loop = Free
    /\ ready # <<>>
    /\ LET t == NextReady(ready)[1]
       IN  /\ pc[t] = "suspended"
           /\ pc' = [pc EXCEPT ![t] = "result"]
           /\ loop' = InResult(t)
           /\ ready' = NextReady(ready)[2]
    /\ UNCHANGED <<obj, call, attempt, fut, out, poolVars, logVars>>

\* Future.result(): the value, or the captured exception raised again.
FutureResult(f) == f.outcome

\* future.result() returns once the future is finished; the coroutine returns.
Result(t) ==
    /\ loop = InResult(t)
    /\ fut[t].state = "FINISHED"
    /\ out' = [out EXCEPT ![t] = FutureResult(fut[t])]
    /\ pc' = [pc EXCEPT ![t] = "done"]
    /\ loop' = Free
    /\ resumeLog' = Append(resumeLog, t)
    /\ UNCHANGED <<obj, call, attempt, fut, ready, poolVars,
                   submitLog, startLog, endLog>>

\* ------------------------------------------- the pool's worker threads
\* queue.SimpleQueue.get: the oldest item.
DequeueLast(q) == <<q[Len(q)], SubSeq(q, 1, Len(q) - 1)>>
DequeuePeek(q) == <<Head(q), q>>
Dequeue(q) == <<Head(q), Tail(q)>>

\* Each instance has its own pool: a lane's worker is busy only with jobs of
\* that lane.
IdleWorkersShared(i) ==
    threads[i] - exited[i] - Cardinality(UNION {executing[k] : k \in Inst})
IdleWorkers(i) == threads[i] - exited[i] - Cardinality(executing[i])

\* _worker: work_item = work_queue.get(); _WorkItem.run marks the future running.
WorkerTake(i) ==
    /\ work_queue[i] # <<>>
    /\ IdleWorkers(i) > 0
    /\ LET job == Dequeue(work_queue[i])[1]
       IN  /\ work_queue' = [work_queue EXCEPT ![i] = Dequeue(work_queue[i])[2]]
           /\ executing' = [executing EXCEPT ![i] = @ \cup {job}]
           /\ fut' = [fut EXCEPT ![job.id].state = "RUNNING"]
           /\ startLog' = [startLog EXCEPT ![i] = Append(@, job.id)]
    /\ UNCHANGED <<obj, pc, call, attempt, out, ready, loop, shutdownFlag, threads,
                   exited, submitLog, endLog, resumeLog>>

\* _WorkItem.run: set_result(fn(*args, **kwargs)), or set_exception(exc) with
\* the exception object the call raised.
CaptureGeneric(o) == IF o.kind = "error" THEN Raised("Exception", "job failed") ELSE o
Capture(o) == o

\* How many worker threads a finished work item takes down with it: none,
\* _WorkItem.run catches BaseException.
WorkerDeathsOnError(o) == IF o.kind = "error" THEN 1 ELSE 0
WorkerDeaths(o) == 0

WorkerFinish(i) ==
    \E job \in executing[i] :
        /\ executing' = [executing EXCEPT ![i] = @ \ {job}]
        /\ exited' = [exited EXCEPT ![i] =
                          @ + WorkerDeaths(Exe(job.fn, job.inst, job.args, job.kwargs))]
        /\ fut' = [fut EXCEPT ![job.id] =
                      [state |-> "FINISHED",
                       outcome |-> Capture(Exe(job.fn, job.inst, job.args, job.kwargs))]]
        /\ endLog' = [endLog EXCEPT ![i] = Append(@, job.id)]
        /\ UNCHANGED <<obj, pc, call, attempt, out, ready, loop, shutdownFlag,
                       work_queue, threads, submitLog, startLog, resumeLog>>

\* shutdown() wakes the worker with a None behind every accepted item; the
\* worker reads it once the queue is drained.
WorkerNeverWoken(i) == FALSE
WorkerWoken(i) == shutdownFlag[i] /\ work_queue[i] = <<>>

\* _worker returns when it finds the queue drained after shutdown.
WorkerExit(i) ==
    /\ WorkerWoken(i)
    /\ IdleWorkers(i) > 0
    /\ exited' = [exited EXCEPT ![i] = @ + 1]
    /\ UNCHANGED <<obj, pc, call, attempt, fut, out, ready, loop, shutdownFlag,
                   work_queue, threads, executing, logVars>>

\* ------------------------------------------------------- SharerMixin
\* What shutdown() leaves of the work queue: the default cancel_futures=False
\* keeps every accepted item.
ShutdownDrops(q) == <<>>
ShutdownKeeps(q) == q

\* shutdown(): self._shutdown = True, whatever it was.
ShutdownFlagToggled(b) == ~b
ShutdownFlagSet(b) == TRUE

\* SharerMixin.__del__: self._pool.shutdown(), wait=True, on the loop's thread.
Shutdown(i) ==
    /\ loop = Free
    /\ shutdownFlag' = [shutdownFlag EXCEPT ![i] = ShutdownFlagSet(@)]
    /\ work_queue' = [work_queue EXCEPT ![i] = ShutdownKeeps(@)]
    /\ loop' = InJoin(i)
    /\ UNCHANGED <<obj, pc, call, attempt, fut, out, ready, threads, exited,
                   executing, submitLog, startLog, endLog, resumeLog>>

\* shutdown(wait=True) returns when every worker thread is joined.
ShutdownReturn(i) ==
    /\ loop = InJoin(i)
    /\ exited[i] = threads[i]
    /\ loop' = Free
    /\ UNCHANGED <<obj, pc, call, attempt, fut, out, ready, poolVars, logVars>>

Next ==
    \/ \E t \in Tasks, i \in Inst, shape \in CallShapes : Call(t, i, shape)
    \/ \E t \in Tasks : AwaitDirect(t)
    \/ \E t \in Tasks : Schedule(t)
    \/ LoopStart
    \/ LoopResume
    \/ \E t \in Tasks : Result(t)
    \/ \E i \in Inst : WorkerTake(i)
    \/ \E i \in Inst : WorkerFinish(i)
    \/ \E i \in Inst : WorkerExit(i)
    \/ \E i \in Inst : Shutdown(i)
    \/ \E i \in Inst : ShutdownReturn(i)

Spec == Init /\ [][Next]_vars

\* The scheduling the program runs under: every worker thread keeps running
\* (each wrapped method body returns or raises), a blocked call on the loop's
\* thread returns once it can, and the loop, which runs its ready queue first
\* in first out, gets to the task at the head of the queue.
Fairness ==
    /\ \A i \in Inst : /\ WF_vars(WorkerTake(i))
                       /\ WF_vars(WorkerFinish(i))
                       /\ WF_vars(WorkerExit(i))
                       /\ WF_vars(ShutdownReturn(i))
    /\ \A t \in Tasks : WF_vars(Result(t))
    /\ SF_vars(LoopStart)
    /\ SF_vars(LoopResume)

FairSpec == Spec /\ Fairness

\* ---------------------------------------------------------------- helpers
IsPrefix(s, q) == Len(s) <= Len(q) /\ SubSeq(q, 1, Len(s)) = s
Ids(q) == {q[k] : k \in DOMAIN q}
QueuedIds(i) == {work_queue[i][k].id : k \in DOMAIN work_queue[i]}
ExecutingIds(i) == {j.id : j \in executing[i]}
Position(q, x) == CHOOSE k \in DOMAIN q : q[k] = x
\* The call executed directly and synchronously on the instance it was made on.
Direct(t) == Exe(call[t].m, call[t].inst, call[t].args, call[t].kwargs)
\* The task's job was accepted by a lane and a worker ran it to its end.
Executed(t) == attempt[t].lane # NoInst /\ t \in Ids(endLog[attempt[t].lane])

\* ------------------------------------------------------------------ claims
\* C1: whatever the number of tasks calling wrapped methods on one instance,
\* at most one job bound to that instance is executing at any instant.
C1_AtMostOneExecuting ==
    \A i \in Inst :
        Cardinality({j \in UNION {executing[k] : k \in Inst} : j.inst = i}) <= 1

\* Two tasks have jobs on the same lane: one is executing, the other waits.
C1_Witness ==
    \E i \in Inst : Cardinality(executing[i]) = 1 /\ Len(work_queue[i]) >= 1

\* C2: the jobs of a lane start and finish in the order they were submitted,
\* and a job starts only after every job submitted before it has finished.
C2_SubmissionOrder ==
    \A i \in Inst :
        /\ IsPrefix(startLog[i], submitLog[i])
        /\ IsPrefix(endLog[i], startLog[i])
        /\ Len(startLog[i]) <= Len(endLog[i]) + 1

\* Task 2 submitted before task 1 on one lane, and both jobs have finished.
C2_Witness ==
    \E i \in Inst : submitLog[i] = <<2, 1>> /\ endLog[i] = <<2, 1>>

\* C3: while a submitted job is still queued or running, the event loop's
\* thread is not blocked waiting for it.
C3_LoopNeverBlocked ==
    \A t \in Tasks : fut[t].state \in {"PENDING", "RUNNING"} => loop # InResult(t)

\* C4: a wrapped call made on an instance submits its job to that instance's
\* lane, with that instance as the bound instance.
C4_PerInstanceDispatch ==
    \A t \in Tasks :
        attempt[t].lane # NoInst =>
            /\ attempt[t].lane = call[t].inst
            /\ attempt[t].closed \/ attempt[t].job.inst = call[t].inst

\* C5: when the wrapped method raised on the worker, the await raises an
\* error of the same kind and message, on every repetition.
C5_FailurePropagates ==
    \A t \in Tasks :
        LET E == Exe(attempt[t].job.fn, attempt[t].job.inst,
                     attempt[t].job.args, attempt[t].job.kwargs)
        IN  (pc[t] = "done" /\ Executed(t) /\ E.kind = "error")
            => /\ out[t].kind = "error"
               /\ out[t].type = E.type
               /\ out[t].msg = E.msg

\* The failing call was made twice on one instance, one after the other, and
\* both awaits raised.
C5_Witness ==
    /\ resumeLog = <<1, 2>>
    /\ \A t \in {1, 2} : call[t].m = "crash" /\ call[t].inst = "X"
                         /\ pc[t] = "done" /\ out[t].kind = "error"

\* C6: a caller is past its suspension point only once its job's outcome is
\* available.
C6_ResumedOnlyWhenDone ==
    \A t \in Tasks : pc[t] = "result" => fut[t].state = "FINISHED"

\* C7: the callers of one lane obtain their outcomes in the order in which
\* their jobs were submitted to it.
C7_ResumeOrder ==
    \A i \in Inst : \A a, b \in DOMAIN submitLog[i] :
        (a < b /\ submitLog[i][b] \in Ids(resumeLog))
        => /\ submitLog[i][a] \in Ids(resumeLog)
           /\ Position(resumeLog, submitLog[i][a]) < Position(resumeLog, submitLog[i][b])

\* Two tasks were pending on one lane together, the later call submitted
\* first, and both have resumed.
C7_Witness ==
    \E i \in Inst : submitLog[i] = <<2, 1>> /\ Len(resumeLog) = 2

\* C8: the await gives what the direct call on the same instance with the same
\* arguments gives, and the job carries instance and arguments unchanged.
C8_SameAsDirectCall ==
    \A t \in Tasks :
        (pc[t] = "done" /\ ~attempt[t].closed)
        => /\ attempt[t].job.inst = call[t].inst
           /\ attempt[t].job.args = call[t].args
           /\ attempt[t].job.kwargs = call[t].kwargs
           /\ out[t] = Direct(t)

\* C9: a submission to a lane that has been shut down fails with the lane's
\* closed error at the submitter, and its job is never queued or executed.
C9_ClosedLaneRejects ==
    \A t \in Tasks :
        attempt[t].closed
        => /\ pc[t] = "done"
           /\ out[t] = LaneClosed
           /\ fut[t] = NoFuture
           /\ \A i \in Inst : t \notin Ids(submitLog[i]) \cup Ids(startLog[i])
                                  \cup QueuedIds(i) \cup ExecutingIds(i)

\* A call was submitted to a lane after its shutdown.
C9_Witness ==
    \E t \in Tasks : attempt[t].closed /\ pc[t] = "done"

\* C10: shutdown discards no accepted job: each stays queued, in flight or
\* finished, and when the shutdown has joined the worker every accepted job has
\* been executed and its future holds its outcome.
C10_ShutdownKeepsAccepted ==
    \A i \in Inst :
        /\ Ids(submitLog[i]) = QueuedIds(i) \cup ExecutingIds(i) \cup Ids(endLog[i])
        /\ (shutdownFlag[i] /\ exited[i] = threads[i])
           => /\ endLog[i] = submitLog[i]
              /\ \A t \in Ids(submitLog[i]) :
                    /\ fut[t].state = "FINISHED"
                    /\ fut[t].outcome = Exe(attempt[t].job.fn, attempt[t].job.inst,
                                            attempt[t].job.args, attempt[t].job.kwargs)

\* Shutdown was called with one job in flight and one queued, and is waiting.
C10_WitnessDraining ==
    \E i \in Inst : /\ loop = InJoin(i)
                    /\ Cardinality(executing[i]) = 1
                    /\ Len(work_queue[i]) = 1

\* C11: a shutdown does not hang: called with jobs still queued or in flight,
\* it returns after the finite wait for them to drain.
C11_ShutdownReturns ==
    \A i \in Inst : (loop = InJoin(i)) ~> (loop = Free)

\* Shutdown was called with two accepted jobs queued and none started yet.
C11_Witness ==
    \E i \in Inst : loop = InJoin(i) /\ Len(work_queue[i]) = 2 /\ executing[i] = {}

\* C12: a shutdown of a lane that is already shut down changes nothing of the
\* lane (closed flag, queue, worker, running jobs, resolved futures) and has
\* nothing to wait for, so that it returns without error.
C12_ShutdownIdempotent ==
    [][\A i \in Inst :
          (shutdownFlag[i] /\ loop = Free /\ loop' = InJoin(i))
          => /\ shutdownFlag'[i]
             /\ work_queue' = work_queue
             /\ threads' = threads /\ exited' = exited
             /\ executing' = executing
             /\ fut' = fut /\ out' = out
             /\ exited'[i] = threads'[i]]_vars

\* A lane that ran a job and, once shut down, refused a call is being shut
\* down again.
C12_Witness ==
    \E i \in Inst :
        /\ loop = InJoin(i)
        /\ Len(endLog[i]) >= 1
        /\ \E t \in Tasks : attempt[t].closed /\ attempt[t].lane = i

\* C13: the lanes of two instances are not serialized against each other: a
\* lane with a queued job and a live worker that runs nothing can start the job
\* whatever the other lane is executing.
C13_NoCrossInstanceSerialization ==
    \A i \in Inst :
        (work_queue[i] # <<>> /\ executing[i] = {} /\ threads[i] - exited[i] >= 1)
        => ENABLED WorkerTake(i)

\* A job of instance X and a job of instance Y are executing at the same
\* instant, each on the worker of its own lane.
C13_Witness ==
    /\ \E j \in executing["X"] : j.inst = "X"
    /\ \E j \in executing["Y"] : j.inst = "Y"

\* The outcome the job of task t produces when it is run.
JobOutcome(t) ==
    Exe(attempt[t].job.fn, attempt[t].job.inst, attempt[t].job.args, attempt[t].job.kwargs)

\* C14: a raising job does not end the lane's worker and its failure is not
\* lost: the failure is in the job's future, the worker leaves only by a
\* shutdown, and the jobs behind the failed one stay accepted with a live
\* worker to run them.
C14_FailureCapturedWorkerSurvives ==
    \A i \in Inst :
        /\ exited[i] > 0 => shutdownFlag[i]
        /\ \A t \in Ids(endLog[i]) :
              JobOutcome(t).kind = "error"
              => /\ fut[t].state = "FINISHED"
                 /\ fut[t].outcome.kind = "error"
                 /\ fut[t].outcome.type = JobOutcome(t).type
                 /\ fut[t].outcome.msg = JobOutcome(t).msg
        /\ Ids(submitLog[i]) = QueuedIds(i) \cup ExecutingIds(i) \cup Ids(endLog[i])
        /\ (work_queue[i] # <<>> \/ executing[i] # {}) => threads[i] - exited[i] >= 1

\* On an open lane the first job raised, and the job behind it was then run
\* and resolved by the same worker, which is still alive.
C14_Witness ==
    \E i \in Inst :
        /\ endLog[i] = <<1, 2>>
        /\ fut[1].outcome.kind = "error"
        /\ fut[2].state = "FINISHED"
        /\ ~shutdownFlag[i] /\ threads[i] = 1 /\ exited[i] = 0

\* C15: a wrapped method's body runs only on the worker of the instance it is
\* bound to: every job queued or running on a lane is bound to that lane's
\* instance, and an outcome a caller got was produced on that worker, not on
\* the event loop's thread.
C15_OwnWorkerOnly ==
    /\ \A i \in Inst :
          /\ \A j \in executing[i] : j.inst = i
          /\ \A k \in DOMAIN work_queue[i] : work_queue[i][k].inst = i
    /\ \A t \in Tasks :
          (pc[t] = "done" /\ ~attempt[t].closed)
          => t \in Ids(endLog[attempt[t].job.inst])

\* A call made on one instance is running bound to the other, and it runs on
\* the worker of the instance it is bound to.
C15_Witness ==
    \E i \in Inst : \E j \in executing[i] : j.inst = i /\ call[j.id].inst # i

\* C16: between submitting its job and reading the outcome a wrapped call
\* yields to the loop: on submitting it is queued behind every ready task, and
\* it goes on to read the outcome only when the loop takes it from the head of
\* the ready queue.
C16_YieldsBeforeResult ==
    [][\A t \in Tasks :
          /\ (pc[t] # "suspended" /\ pc'[t] = "suspended")
             => /\ ready' # <<>>
                /\ ready'[Len(ready')] = t
                /\ \A u \in Ids(ready) \ {t} : u \in Ids(SubSeq(ready', 1, Len(ready') - 1))
          /\ (pc[t] # "result" /\ pc'[t] = "result")
             => /\ pc[t] = "suspended"
                /\ ready # <<>>
                /\ Head(ready) = t]_vars

\* While task 1 was suspended after its submit, task 2 ran and submitted its
\* own job; task 1 has now gone on to read its outcome.
C16_Witness ==
    /\ pc[1] = "result"
    /\ pc[2] = "suspended"
    /\ attempt[2].lane # NoInst
    /\ ready = <<2>>

\* How often x occurs in the sequence q.
Count(q, x) == Cardinality({k \in DOMAIN q : q[k] = x})
\* How often the job of task t occurs in a per-lane log, over all lanes.
Times(log, t) ==
    Cardinality({p \in UNION {{<<i, k>> : k \in DOMAIN log[i]} : i \in Inst} :
                    log[p[1]][p[2]] = t})

\* C17: every submitted job is accepted, started and finished at most once and
\* is in one place at a time; its future is finished exactly when the job has
\* run, and then holds that job's outcome; a caller gets an outcome once, and
\* it is the outcome of the job it submitted.
C17_ExactlyOnce ==
    \A t \in Tasks :
        /\ Times(submitLog, t) <= 1 /\ Times(startLog, t) <= 1 /\ Times(endLog, t) <= 1
        /\ Count(resumeLog, t) <= 1
        /\ Cardinality({i \in Inst : t \in QueuedIds(i)})
             + Cardinality({i \in Inst : t \in ExecutingIds(i)})
             + Times(endLog, t) = Times(submitLog, t)
        /\ \A i \in Inst : Count([k \in DOMAIN work_queue[i] |-> work_queue[i][k].id], t) <= 1
        /\ (fut[t].state = "FINISHED") = (Times(endLog, t) = 1)
        /\ fut[t].state = "FINISHED" => fut[t].outcome = JobOutcome(t)
        /\ fut[t].state # "FINISHED" => fut[t].outcome = NoOutcome
        /\ (t \in Ids(resumeLog)) = (pc[t] = "done" /\ ~attempt[t].closed)
        /\ t \in Ids(resumeLog) => (Times(endLog, t) = 1 /\ out[t] = JobOutcome(t))

\* Two callers of one lane each got the outcome of their own job: one a
\* value, the other the error its job raised.
C17_Witness ==
    /\ Len(resumeLog) = 2
    /\ attempt[1].lane = attempt[2].lane
    /\ out[1].kind = "value" /\ out[2].kind = "error"
    /\ out[1] = JobOutcome(1) /\ out[2] = JobOutcome(2)

\* C18: a lane has no worker before its first job and exactly one from then
\* on, however many calls are submitted; none is started per call.
C18_OneWorkerPerLane ==
    \A i \in Inst :
        /\ threads[i] = (IF submitLog[i] = <<>> THEN 0 ELSE 1)
        /\ exited[i] <= threads[i]

\* Two calls were submitted to one lane, which has one worker thread.
C18_Witness ==
    \E i \in Inst : Len(submitLog[i]) = 2 /\ threads[i] = 1

\* C19: with worker threads that keep running and a loop that gets to the
\* head of its ready queue, every job a lane accepted is run and its caller
\* resumes with that job's outcome.
C19_AcceptedJobsComplete ==
    \A t \in Tasks :
        (pc[t] = "suspended")
        ~> (pc[t] = "done" /\ t \in Ids(endLog[attempt[t].lane]) /\ out[t] = JobOutcome(t))

\* One caller sits in future.result() on the loop's thread for a job that has
\* not started, while the other caller's job is accepted on the other lane and
\* that caller waits for the loop.
C19_Witness ==
    /\ loop = InResult(1)
    /\ fut[1].state = "PENDING"
    /\ pc[2] = "suspended"
    /\ attempt[1].lane # attempt[2].lane

\* The task's coroutine object exists and none of its body has run.
NotYetRun(t) == pc[t] \in {"created", "scheduled"}

\* C20: calling a wrapped method only creates the awaitable: the call leaves
\* every lane and every future as they were, a call whose coroutine has not run
\* has no job anywhere, and a job enters a lane's submission order in the step
\* in which its coroutine first runs.
C20_CallOnlyCreates ==
    /\ [](\A t \in Tasks :
             NotYetRun(t)
             => /\ attempt[t] = NoAttempt
                /\ fut[t] = NoFuture
                /\ \A i \in Inst : t \notin Ids(submitLog[i]) \cup QueuedIds(i)
                                       \cup ExecutingIds(i) \cup Ids(startLog[i]))
    /\ [][\A t \in Tasks :
             /\ (pc[t] = "idle" /\ pc'[t] = "created")
                => /\ poolVars' = poolVars
                   /\ logVars' = logVars
                   /\ fut' = fut
             /\ \A i \in Inst :
                   (t \notin Ids(submitLog[i]) /\ t \in Ids(submitLog'[i]))
                   => /\ NotYetRun(t)
                      /\ pc'[t] = "suspended"
                      /\ submitLog'[i] = Append(submitLog[i], t)]_vars

\* The first call's coroutine was created and never run; the call made after
\* it was awaited, and its job was submitted and has run.
C20_Witness ==
    /\ pc[1] = "created"
    /\ pc[2] = "done"
    /\ \E i \in Inst : submitLog[i] = <<2>> /\ endLog[i] = <<2>> /\ call[1].inst = i

====
